---- MODULE Spec2Model ----
(***************************************************************************)
(* Steam OpenID 2.0 provider for next-auth (src/app/layout.tsx).           *)
(*                                                                         *)
(* Values are modelled as the program sees them:                           *)
(*   - a JavaScript string is a TLA+ string, read character by character   *)
(*     with Len and SubSeq;                                                *)
(*   - "string | null | undefined" is an option: <<>> is null/undefined,   *)
(*     <<s>> is the string s;                                              *)
(*   - URLSearchParams and a Record<string,string> are sequences of        *)
(*     <<name, value>> pairs in insertion order (decoded names/values);    *)
(*   - a callback URL is [kind, query]: kind "empty" is the string '',     *)
(*     kind "absolute" parses with new URL(), kind "relative" makes        *)
(*     new URL() throw, and query is the decoded list of its query         *)
(*     parameters;                                                         *)
(*   - options.callbackUrl is [text, url]: the configured string and the   *)
(*     URL object new URL() makes of it (its origin and href), or Null     *)
(*     when new URL() throws;                                              *)
(*   - an async function is one action per stretch of code between two     *)
(*     awaits, and each promise of the transport settles in an action of   *)
(*     its own, so the steps of other attempts can fall in between.        *)
(***************************************************************************)
EXTENDS Integers, Sequences, FiniteSets, TLC

(***************************************************************************)
(* Bounds                                                                  *)
(***************************************************************************)
MaxAttempts == 2

Attempts == 1..MaxAttempts

(***************************************************************************)
(* JavaScript values                                                       *)
(***************************************************************************)
Null == <<>>

Some(s) == <<s>>

\* !v for v : string | null | undefined
Falsy(v) == v = Null \/ v = Some("")

\* !url for url : string | undefined holding a URL
FalsyUrl(url) == url = Null \/ url[1].kind = "empty"

\* v || ''
OrEmpty(v) == IF Falsy(v) THEN "" ELSE v[1]

CharAt(s, i) == SubSeq(s, i, i)

StartsWithAt(s, i, p) ==
    /\ i + Len(p) - 1 <= Len(s)
    /\ SubSeq(s, i, i + Len(p) - 1) = p

Digits == {"0", "1", "2", "3", "4", "5", "6", "7", "8", "9"}

\* U+000B, U+00A0, U+1680 and U+FEFF
VT == ""

NBSP == " "

OGHAM == " "

BOM == "﻿"

\* \s of a JavaScript regular expression. Its other sixteen characters,
\* U+2000..U+200A, U+2028, U+2029, U+202F, U+205F and U+3000, are not
\* characters a string of this module can hold.
Whitespace == {" ", "\t", "\n", "\r", "\f", VT, NBSP, OGHAM, BOM}

Upper(c) ==
    CASE c = "a" -> "A" [] c = "d" -> "D" [] c = "e" -> "E" [] c = "i" -> "I"
      [] c = "l" -> "L" [] c = "r" -> "R" [] c = "s" -> "S" [] c = "t" -> "T"
      [] c = "u" -> "U" [] c = "v" -> "V" [] OTHER -> c

\* p is a lower-case literal; s matches it at i ignoring case (the /i flag)
StartsWithAtCI(s, i, p) ==
    /\ i + Len(p) - 1 <= Len(s)
    /\ \A k \in 1..Len(p) :
          \/ CharAt(s, i + k - 1) = CharAt(p, k)
          \/ CharAt(s, i + k - 1) = Upper(CharAt(p, k))

\* position after the longest run of whitespace starting at i (\s*)
RECURSIVE SkipSpace(_, _)
SkipSpace(s, i) ==
    IF i <= Len(s) /\ CharAt(s, i) \in Whitespace THEN SkipSpace(s, i + 1) ELSE i

\* String.prototype.split(',')
RECURSIVE SplitFrom(_, _, _)
SplitFrom(s, i, cur) ==
    IF i > Len(s) THEN <<cur>>
    ELSE IF CharAt(s, i) = "," THEN <<cur>> \o SplitFrom(s, i + 1, "")
    ELSE SplitFrom(s, i + 1, cur \o CharAt(s, i))

Split(s) == SplitFrom(s, 1, "")

(***************************************************************************)
(* URLSearchParams / Record<string, string>                                *)
(***************************************************************************)
HasKey(ps, k) == \E i \in 1..Len(ps) : ps[i][1] = k

FirstIndex(ps, k) == CHOOSE i \in 1..Len(ps) : ps[i][1] = k /\ \A j \in 1..(i - 1) : ps[j][1] # k

\* URLSearchParams.get(name): the first value of that name, or null
Get(ps, k) == IF HasKey(ps, k) THEN Some(ps[FirstIndex(ps, k)][2]) ELSE Null

\* obj[k] = v on an object literal / record: overwrite in place, else append
Assign(ps, k, v) ==
    IF HasKey(ps, k)
    THEN [i \in 1..Len(ps) |-> IF ps[i][1] = k THEN <<k, v>> ELSE ps[i]]
    ELSE Append(ps, <<k, v>>)

\* { ...a, ...b }: the properties of b assigned onto a in order
RECURSIVE Spread(_, _)
Spread(a, b) == IF b = <<>> THEN a ELSE Spread(Assign(a, b[1][1], b[1][2]), Tail(b))

(***************************************************************************)
(* src/app/layout.tsx:51-53                                                *)
(***************************************************************************)
PROVIDER_ID == "steam"

(***************************************************************************)
(* Errors thrown by the code                                               *)
(***************************************************************************)
Err(name, message) == [name |-> name, message |-> message]

\* new URL(x) on an unparsable x
InvalidURL == Err("TypeError", "Invalid URL")

\* fetch() rejecting on a network failure
FetchFailed == Err("TypeError", "fetch failed")

\* Response.text() / Response.json() rejecting while reading the body
BodyFailed == Err("TypeError", "terminated")

\* Response.json() on a body that is not JSON rejects with the SyntaxError of
\* JSON.parse, whose message depends on the body: the messages for '' and a
\* truncated body, for '{a}', and for text after a JSON value
JSONSyntaxErrors ==
    { Err("SyntaxError", m) :
        m \in { "Unexpected end of JSON input",
                "Expected property name or '}' in JSON at position 1",
                "Unexpected non-whitespace character after JSON at position 2" } }

\* reading a property of undefined
UndefinedProperty == Err("TypeError", "Cannot read properties of undefined")

MissingUrl == Err("Error", "No URL found in request object")

Unauthenticated == Err("Error", "Unauthenticated")

MissingCredential == Err("Error", "Steam API key is missing")

(***************************************************************************)
(* getAuthorizationParams                                                  *)
(***************************************************************************)
OPENID_NS == "http://specs.openid.net/auth/2.0"

IDENTIFIER_SELECT == "http://specs.openid.net/auth/2.0/identifier_select"

LOGIN_URL == "https://steamcommunity.com/openid/login"

\* getAuthorizationParams with its two arguments the wrong way round
getAuthorizationParams_swapped(redirect, realm) ==
    [url |-> LOGIN_URL,
     params |-> << <<"openid.mode", "checkid_setup">>,
                   <<"openid.ns", OPENID_NS>>,
                   <<"openid.identity", IDENTIFIER_SELECT>>,
                   <<"openid.claimed_id", IDENTIFIER_SELECT>>,
                   <<"openid.return_to", realm>>,
                   <<"openid.realm", redirect>> >>]

getAuthorizationParams(redirect, realm) ==
    [url |-> LOGIN_URL,
     params |-> << <<"openid.mode", "checkid_setup">>,
                   <<"openid.ns", OPENID_NS>>,
                   <<"openid.identity", IDENTIFIER_SELECT>>,
                   <<"openid.claimed_id", IDENTIFIER_SELECT>>,
                   <<"openid.return_to", redirect>>,
                   <<"openid.realm", realm>> >>]

(***************************************************************************)
(* verifyAssertion                                                         *)
(***************************************************************************)
\* IDENTIFIER_PATTERN without the host: /^https?:\/\/.*\/openid\/id\/(\d+)$/
IDENTIFIER_PATTERN_anyhost(s) ==
    IF /\ StartsWithAt(s, 1, "http://") \/ StartsWithAt(s, 1, "https://")
       /\ \E i \in 8..Len(s) :
             /\ StartsWithAt(s, i, "/openid/id/")
             /\ i + 11 <= Len(s)
             /\ \A k \in (i + 11)..Len(s) : CharAt(s, k) \in Digits
    THEN LET i == CHOOSE i \in 8..Len(s) :
                     /\ StartsWithAt(s, i, "/openid/id/")
                     /\ i + 11 <= Len(s)
                     /\ \A k \in (i + 11)..Len(s) : CharAt(s, k) \in Digits
         IN  Some(SubSeq(s, i + 11, Len(s)))
    ELSE Null

\* IDENTIFIER_PATTERN giving the whole match, matches[0], for the group
IDENTIFIER_PATTERN_whole(s) ==
    LET i1   == IF StartsWithAt(s, 5, "s") THEN 6 ELSE 5
        host == "://steamcommunity.com/openid/id/"
        i2   == i1 + Len(host)
    IN  IF /\ StartsWithAt(s, 1, "http")
           /\ StartsWithAt(s, i1, host)
           /\ i2 <= Len(s)
           /\ \A k \in i2..Len(s) : CharAt(s, k) \in Digits
        THEN Some(s)
        ELSE Null

\* IDENTIFIER_PATTERN without its anchors: the first place of s where
\* /https?:\/\/steamcommunity\.com\/openid\/id\/(\d+)/ matches
IDENTIFIER_PATTERN_unanchored(s) ==
    LET host   == "://steamcommunity.com/openid/id/"
        tail(i) == IF StartsWithAt(s, i, "https" \o host) THEN i + 5 + Len(host)
                   ELSE IF StartsWithAt(s, i, "http" \o host) THEN i + 4 + Len(host)
                   ELSE Len(s) + 1
        starts == {i \in 1..Len(s) : tail(i) <= Len(s) /\ CharAt(s, tail(i)) \in Digits}
    IN  IF starts = {} THEN Null
        ELSE LET i == CHOOSE i \in starts : \A j \in starts : i <= j
                 e == CHOOSE e \in tail(i)..Len(s) :
                         /\ \A k \in tail(i)..e : CharAt(s, k) \in Digits
                         /\ e = Len(s) \/ CharAt(s, e + 1) \notin Digits
             IN  Some(SubSeq(s, tail(i), e))

\* /^https?:\/\/steamcommunity\.com\/openid\/id\/(\d+)$/ : String.match gives
\* null, or the captured group matches[1]
IDENTIFIER_PATTERN(s) ==
    LET i1   == IF StartsWithAt(s, 5, "s") THEN 6 ELSE 5
        host == "://steamcommunity.com/openid/id/"
        i2   == i1 + Len(host)
    IN  IF /\ StartsWithAt(s, 1, "http")
           /\ StartsWithAt(s, i1, host)
           /\ i2 <= Len(s)
           /\ \A k \in i2..Len(s) : CharAt(s, k) \in Digits
        THEN Some(SubSeq(s, i2, Len(s)))
        ELSE Null

\* IsValidMatch looking for the key only: /is_valid/i
IsValidMatch_keyonly(result) ==
    \E i \in 1..Len(result) : StartsWithAtCI(result, i, "is_valid")

\* result.match(/is_valid\s*:\s*true/i) is not null
IsValidMatch(result) ==
    \E i \in 1..Len(result) :
        /\ StartsWithAtCI(result, i, "is_valid")
        /\ LET j == SkipSpace(result, i + 8)
           IN  /\ StartsWithAt(result, j, ":")
               /\ StartsWithAtCI(result, SkipSpace(result, j + 1), "true")

\* const signed = searchParams.get('openid.signed') || ''
signed(searchParams) == OrEmpty(Get(searchParams, "openid.signed"))

\* token_params_loop skipping the names the callback has no parameter for
RECURSIVE token_params_loop_skip(_, _, _)
token_params_loop_skip(searchParams, vals, acc) ==
    IF vals = <<>> THEN acc
    ELSE token_params_loop_skip(searchParams, Tail(vals),
            IF Get(searchParams, "openid." \o Head(vals)) = Null THEN acc
            ELSE Assign(acc, "openid." \o Head(vals),
                        OrEmpty(Get(searchParams, "openid." \o Head(vals)))))

\* for (const val of signed.split(',')) token_params[`openid.${val}`] = ...
RECURSIVE token_params_loop(_, _, _)
token_params_loop(searchParams, vals, acc) ==
    IF vals = <<>> THEN acc
    ELSE token_params_loop(searchParams, Tail(vals),
            Assign(acc, "openid." \o Head(vals),
                   OrEmpty(Get(searchParams, "openid." \o Head(vals)))))

token_params(searchParams) ==
    token_params_loop(searchParams, Split(signed(searchParams)), <<>>)

\* token_url_params echoing the callback's openid.claimed_id whether or not
\* the signed list names it
token_url_params_claimed(searchParams) ==
    Spread(<< <<"openid.assoc_handle", OrEmpty(Get(searchParams, "openid.assoc_handle"))>>,
              <<"openid.signed", signed(searchParams)>>,
              <<"openid.sig", OrEmpty(Get(searchParams, "openid.sig"))>>,
              <<"openid.ns", OPENID_NS>>,
              <<"openid.mode", "check_authentication">>,
              <<"openid.claimed_id", OrEmpty(Get(searchParams, "openid.claimed_id"))>> >>,
           token_params(searchParams))

\* new URLSearchParams({ ...five fixed entries, ...token_params })
token_url_params(searchParams) ==
    Spread(<< <<"openid.assoc_handle", OrEmpty(Get(searchParams, "openid.assoc_handle"))>>,
              <<"openid.signed", signed(searchParams)>>,
              <<"openid.sig", OrEmpty(Get(searchParams, "openid.sig"))>>,
              <<"openid.ns", OPENID_NS>>,
              <<"openid.mode", "check_authentication">> >>,
           token_params(searchParams))

\* The POST verifyAssertion issues
VerificationPost(params) == [method |-> "POST", url |-> LOGIN_URL, params |-> params]

\* verifyAssertion up to its first await: it returns, throws, or has issued
\* the POST and waits for the response
verifyAssertion_call(url) ==
    IF FalsyUrl(url) THEN [kind |-> "return", value |-> Null]
    ELSE IF url[1].kind # "absolute" THEN [kind |-> "throw", error |-> InvalidURL]
    ELSE [kind |-> "await", post |-> VerificationPost(token_url_params(url[1].query))]

\* verifyAssertion after the response body has been read
verifyAssertion_result(params, result) ==
    IF IsValidMatch(result)
    THEN LET claimed == Get(params, "openid.claimed_id")
         IN  IF claimed = Null THEN Null ELSE IDENTIFIER_PATTERN(claimed[1])
    ELSE Null

(***************************************************************************)
(* Steam(req, options)                                                     *)
(***************************************************************************)
NoResult == [kind |-> "none"]

Return(v) == [kind |-> "return", value |-> v]

Throw(e) == [kind |-> "throw", error |-> e]

(***************************************************************************)
(* new URL(s) (src/app/layout.tsx:132) is the platform's URL parser. A     *)
(* string handed to it is carried together with what the parser makes of   *)
(* it: [text |-> s, url |-> u], where u is Null when new URL(s) throws     *)
(* and Some([origin |-> o, href |-> h]) with the values of the URL         *)
(* object's origin and href properties when it returns.                    *)
(***************************************************************************)
\* Steam without the clientSecret check
Steam_nocheck(opts) ==
    LET callbackUrl == opts.callbackUrl.url
    IN  IF callbackUrl = Null THEN Throw(InvalidURL)
        ELSE LET realm == callbackUrl[1].origin
                 returnTo == callbackUrl[1].href \o "/" \o PROVIDER_ID
             IN  Return([authorization |-> getAuthorizationParams(returnTo, realm),
                         id |-> PROVIDER_ID,
                         clientId |-> PROVIDER_ID,
                         options |-> opts])

\* Steam(req, options)
Steam(opts) ==
    LET callbackUrl == opts.callbackUrl.url
    IN  IF callbackUrl = Null THEN Throw(InvalidURL)
        ELSE LET realm == callbackUrl[1].origin
                 returnTo == callbackUrl[1].href \o "/" \o PROVIDER_ID
             IN  IF Falsy(opts.clientSecret) \/ Len(opts.clientSecret[1]) < 1
                 THEN Throw(MissingCredential)
                 ELSE Return([authorization |-> getAuthorizationParams(returnTo, realm),
                              id |-> PROVIDER_ID,
                              clientId |-> PROVIDER_ID,
                              options |-> opts])

\* token_request_result without "if (!identifier) throw"
token_request_result_nocheck(v, id_token, access_token) ==
    IF v.kind = "throw" THEN v
    ELSE Return([id_token |-> id_token, access_token |-> access_token,
                 steamId |-> OrEmpty(v.value)])

\* token.request after verifyAssertion has settled with v
token_request_result(v, id_token, access_token) ==
    IF v.kind = "throw" THEN v
    ELSE IF Falsy(v.value) THEN Throw(Unauthenticated)
    ELSE Return([id_token |-> id_token, access_token |-> access_token,
                 steamId |-> v.value[1]])

\* verifyAssertion when "await fetch(...)" settles: a rejected fetch is
\* thrown on, a response has its text() awaited
verifyAssertion_fetched(idpAnswer) ==
    IF idpAnswer.kind = "fetch_fail" THEN Throw(FetchFailed)
    ELSE [kind |-> "await"]

\* verifyAssertion_resume with the body read wrapped in try/catch returning
\* null
verifyAssertion_resume_swallow(params, idpAnswer) ==
    IF idpAnswer.kind = "text_fail" THEN Return(Null)
    ELSE Return(verifyAssertion_result(params, idpAnswer.text))

\* verifyAssertion when "await token_res.text()" settles, to its end
verifyAssertion_resume(params, idpAnswer) ==
    IF idpAnswer.kind = "text_fail" THEN Throw(BodyFailed)
    ELSE Return(verifyAssertion_result(params, idpAnswer.text))

PROFILE_URL == "https://api.steampowered.com/ISteamUser/GetPlayerSummaries/v0002"

\* ProfileGet with the two query parameters filled from the wrong values
ProfileGet_swapped(clientSecret, steamId) ==
    [method |-> "GET", url |-> PROFILE_URL,
     params |-> << <<"key", steamId>>, <<"steamids", clientSecret>> >>]

\* The GET userinfo.request issues
ProfileGet(clientSecret, steamId) ==
    [method |-> "GET", url |-> PROFILE_URL,
     params |-> << <<"key", clientSecret>>, <<"steamids", steamId>> >>]

\* userinfo.request when "await fetch(...)" settles: a rejected fetch is
\* thrown on, a response has its json() awaited
userinfo_fetched(apiAnswer) ==
    IF apiAnswer.kind = "fetch_fail" THEN Throw(FetchFailed)
    ELSE [kind |-> "await"]

\* userinfo.request when "await response.json()" settles, to its end; an
\* absent property or array element is Null (undefined)
userinfo_resume(apiAnswer) ==
    IF apiAnswer.kind = "body_fail" THEN Throw(BodyFailed)
    ELSE IF apiAnswer.kind = "json_fail" THEN Throw(apiAnswer.error)
    ELSE LET data == apiAnswer.json[1]
         IN  IF data.response = Null THEN Throw(UndefinedProperty)
             ELSE IF data.response[1].players = Null THEN Throw(UndefinedProperty)
             ELSE LET players == data.response[1].players[1]
                  IN  Return(IF Len(players) = 0 THEN Null ELSE Some(players[1]))

(***************************************************************************)
(* Inputs                                                                  *)
(***************************************************************************)
GoodClaimedId == "https://steamcommunity.com/openid/id/76561197960287930"

ClaimedIdInputs ==
    { Null,
      Some(""),
      Some(GoodClaimedId),
      Some("http://steamcommunity.com/openid/id/1"),
      Some("https://evil.example/openid/id/123"),
      Some("https://evil.example/?u=https://steamcommunity.com/openid/id/123"),
      Some("https://steamcommunity.com/openid/id/123/x"),
      Some("https://steamcommunity.com/openid/id/"),
      Some("https://steamcommunity.com/openid/id/12a"),
      Some("https://steamcommunityXcom/openid/id/123"),
      Some("HTTPS://steamcommunity.com/openid/id/123") }

SteamSigned == "signed,op_endpoint,claimed_id,identity,return_to,response_nonce,assoc_handle"

SignedInputs ==
    { Null,
      Some(""),
      Some("claimed_id"),
      Some(SteamSigned),
      Some("mode,ns,sig,assoc_handle,signed,claimed_id"),
      Some("identity,return_to"),
      Some("claimed_id,missing"),
      Some("claimed_id,,identity") }

Variants == {"full", "bare", "odd"}

Opt(name, v) == IF v = Null THEN <<>> ELSE << <<name, v[1]>> >>

\* The decoded query parameters of a callback URL
CallbackQuery(sig, claimed, variant) ==
    CASE variant = "bare" ->
            Opt("openid.signed", sig) \o Opt("openid.claimed_id", claimed)
      [] variant = "full" ->
            << <<"openid.ns", OPENID_NS>>,
               <<"openid.mode", "id_res">>,
               <<"openid.op_endpoint", LOGIN_URL>> >>
            \o Opt("openid.claimed_id", claimed)
            \o << <<"openid.identity", GoodClaimedId>>,
                  <<"openid.return_to", "https://app.example/api/auth/callback/steam">>,
                  <<"openid.response_nonce", "2026-10-30T07:00:00Znonce">>,
                  <<"openid.assoc_handle", "1234567890">> >>
            \o Opt("openid.signed", sig)
            \o << <<"openid.sig", "c2lnbmF0dXJl">> >>
      [] variant = "odd" ->
            << <<"state", "xyz">>,
               <<"openid.ns", "http://evil.example/ns">>,
               <<"openid.mode", "cancel">>,
               <<"openid.", "stray">> >>
            \o Opt("openid.claimed_id", claimed)
            \o << <<"openid.claimed_id", GoodClaimedId>>,
                  <<"openid.identity", "">>,
                  <<"openid.assoc_handle", "">> >>
            \o Opt("openid.signed", sig)
            \o << <<"openid.sig", "AAAA">>,
                  <<"openid.sig", "BBBB">> >>

AbsoluteUrls ==
    { [kind |-> "absolute", query |-> CallbackQuery(sg, c, v)] :
        sg \in SignedInputs, c \in ClaimedIdInputs, v \in Variants }

\* req.url of a pages-router request is a path, which new URL() rejects
RelativeUrls ==
    { [kind |-> "relative", query |-> CallbackQuery(Some("claimed_id"), Some(GoodClaimedId), "full")] }

\* req.url / the argument of verifyAssertion: undefined, '', or a URL
EmptyUrl == [kind |-> "empty", query |-> <<>>]

UrlInputs == {Null} \cup {Some(u) : u \in {EmptyUrl} \cup AbsoluteUrls \cup RelativeUrls}

\* A string handed to new URL() with what the platform's parser makes of it
Parsed(text, origin, href) == [text |-> text, url |-> Some([origin |-> origin, href |-> href])]

Unparsable(text) == [text |-> text, url |-> Null]

\* `${process.env.NEXTAUTH_URL}/api/auth/callback` for several values of
\* NEXTAUTH_URL (the last is the environment variable left unset), and a
\* base URL without a path
CallbackUrlInputs ==
    { Parsed("http://localhost:3000/api/auth/callback",
             "http://localhost:3000", "http://localhost:3000/api/auth/callback"),
      Parsed("https://app.example",
             "https://app.example", "https://app.example/"),
      Parsed("http://LocalHost:80/api/auth/callback",
             "http://localhost", "http://localhost/api/auth/callback"),
      Parsed("localhost:3000/api/auth/callback",
             "null", "localhost:3000/api/auth/callback"),
      Unparsable("undefined/api/auth/callback") }

ClientSecretInputs == {Null, Some(""), Some("STEAMKEY")}

OptionsInputs ==
    { [callbackUrl |-> c, clientSecret |-> k] :
        c \in CallbackUrlInputs, k \in ClientSecretInputs }

\* How the transport settles fetch(): it rejects, or resolves with a response
FetchAnswers == { [kind |-> "fetch_fail"], [kind |-> "headers"] }

\* How the transport settles token_res.text() of the verification POST
IdPAnswers ==
    { [kind |-> "text_fail"] }
    \cup { [kind |-> "body", text |-> t] :
            t \in { "ns:http://specs.openid.net/auth/2.0\nis_valid:true\n",
                    "ns:http://specs.openid.net/auth/2.0\nis_valid:false\n",
                    "IS_VALID \t: \n TRUE",
                    "is_valid:tru",
                    "is_valid true",
                    "is_valid" \o NBSP \o VT \o ":" \o OGHAM \o BOM \o "true",
                    "" } }

Player(id, persona) ==
    [steamid |-> id, personaname |-> persona, avatarfull |-> "https://avatars.example/" \o id,
     personastate |-> 1, communityvisibilitystate |-> 3, timecreated |-> 1063407589]

\* How the transport settles response.json() of the profile GET
ApiAnswers ==
    { [kind |-> "body_fail"] }
    \cup { [kind |-> "json_fail", error |-> e] : e \in JSONSyntaxErrors }
    \cup { [kind |-> "body", json |-> Some(d)] :
            d \in { [response |-> Null],
                    [response |-> Some([players |-> Null])],
                    [response |-> Some([players |-> Some(<<>>)])],
                    [response |-> Some([players |-> Some(<<Player("76561197960287930", "gabe")>>)])],
                    [response |-> Some([players |-> Some(<<Player("1", "one"), Player("2", "two")>>)])] } }

\* Values uuidv4() may return
UUIDs == {"uuid-a", "uuid-b"}

(***************************************************************************)
(* State: one record of state per authentication attempt                   *)
(***************************************************************************)
VARIABLES
    pc,          \* where each attempt stands
    options,     \* the options Steam() is called with
    reqUrl,      \* req.url, the argument of verifyAssertion
    provider,    \* what Steam() returned or threw
    net,         \* the transport calls the attempt has issued, in order
    idpAnswer,   \* the transport's answer to the verification POST
    verified,    \* what verifyAssertion returned or threw
    tokenSet,    \* what token.request returned or threw
    apiAnswer,   \* the transport's answer to the profile GET
    userinfo     \* what userinfo.request returned or threw

vars == <<pc, options, reqUrl, provider, net, idpAnswer, verified, tokenSet, apiAnswer, userinfo>>

InitCommon ==
    /\ provider = [a \in Attempts |-> NoResult]
    /\ net = [a \in Attempts |-> <<>>]
    /\ idpAnswer = [a \in Attempts |-> NoResult]
    /\ verified = [a \in Attempts |-> NoResult]
    /\ tokenSet = [a \in Attempts |-> NoResult]
    /\ apiAnswer = [a \in Attempts |-> NoResult]
    /\ userinfo = [a \in Attempts |-> NoResult]

DefaultOptions ==
    [callbackUrl |-> Parsed("http://localhost:3000/api/auth/callback",
                            "http://localhost:3000", "http://localhost:3000/api/auth/callback"),
     clientSecret |-> Some("STEAMKEY")]

\* One request is being served; the other attempts never start
Init ==
    /\ InitCommon
    /\ pc = [a \in Attempts |-> IF a = 1 THEN "start" ELSE "off"]
    /\ \E o \in OptionsInputs : options = [a \in Attempts |-> IF a = 1 THEN o ELSE DefaultOptions]
    /\ \E u \in UrlInputs : reqUrl = [a \in Attempts |-> IF a = 1 THEN u ELSE Null]

\* const provider = Steam(req, options)
Construct(a) ==
    /\ pc[a] = "start"
    /\ provider' = [provider EXCEPT ![a] = Steam(options[a])]
    /\ pc' = [pc EXCEPT ![a] = IF provider'[a].kind = "return" THEN "ready" ELSE "done"]
    /\ UNCHANGED <<options, reqUrl, net, idpAnswer, verified, tokenSet, apiAnswer, userinfo>>

\* TokenRequest without "if (!req.url) throw"
TokenRequest_nocheck(a) ==
    /\ pc[a] = "ready"
    /\ LET v == verifyAssertion_call(reqUrl[a])
       IN  IF v.kind = "await"
           THEN /\ net' = [net EXCEPT ![a] = Append(@, v.post)]
                /\ pc' = [pc EXCEPT ![a] = "token_await"]
                /\ UNCHANGED verified
           ELSE /\ verified' = [verified EXCEPT ![a] = v]
                /\ pc' = [pc EXCEPT ![a] = "token_verified"]
                /\ UNCHANGED net
    /\ UNCHANGED <<options, reqUrl, provider, idpAnswer, tokenSet, apiAnswer, userinfo>>

\* provider.token.request() up to its first await. The throw of line 149
\* settles it at once. Otherwise it calls verifyAssertion, which runs up to
\* its own first await or settles at once; token.request then waits at
\* "await verifyAssertion(req.url)" either way
TokenRequest(a) ==
    /\ pc[a] = "ready"
    /\ IF FalsyUrl(reqUrl[a])
       THEN /\ tokenSet' = [tokenSet EXCEPT ![a] = Throw(MissingUrl)]
            /\ pc' = [pc EXCEPT ![a] = "done"]
            /\ UNCHANGED <<net, verified>>
       ELSE LET v == verifyAssertion_call(reqUrl[a])
            IN  IF v.kind = "await"
                THEN /\ net' = [net EXCEPT ![a] = Append(@, v.post)]
                     /\ pc' = [pc EXCEPT ![a] = "token_await"]
                     /\ UNCHANGED <<verified, tokenSet>>
                ELSE /\ verified' = [verified EXCEPT ![a] = v]
                     /\ pc' = [pc EXCEPT ![a] = "token_verified"]
                     /\ UNCHANGED <<net, tokenSet>>
    /\ UNCHANGED <<options, reqUrl, provider, idpAnswer, apiAnswer, userinfo>>

\* The transport settles the fetch of the verification POST with one of
\* answers
IdPRespondFrom(a, answers) ==
    /\ pc[a] \in {"token_await", "verify_await"}
    /\ idpAnswer[a] = NoResult
    /\ \E r \in answers : idpAnswer' = [idpAnswer EXCEPT ![a] = r]
    /\ UNCHANGED <<pc, options, reqUrl, provider, net, verified, tokenSet, apiAnswer, userinfo>>

IdPRespond(a) == IdPRespondFrom(a, FetchAnswers)

\* Where verifyAssertion's caller stands once verifyAssertion has settled:
\* token.request waits for it, a direct call is over
AfterVerify(p) == IF p \in {"token_await", "token_text"} THEN "token_verified" ELSE "done"

\* verifyAssertion from the settled fetch to "await token_res.text()"
VerifyFetched(a) ==
    /\ pc[a] \in {"token_await", "verify_await"}
    /\ idpAnswer[a] # NoResult
    /\ LET v == verifyAssertion_fetched(idpAnswer[a])
       IN  IF v.kind = "await"
           THEN /\ pc' = [pc EXCEPT ![a] = IF @ = "token_await" THEN "token_text" ELSE "verify_text"]
                /\ UNCHANGED verified
           ELSE /\ verified' = [verified EXCEPT ![a] = v]
                /\ pc' = [pc EXCEPT ![a] = AfterVerify(@)]
    /\ UNCHANGED <<options, reqUrl, provider, net, idpAnswer, tokenSet, apiAnswer, userinfo>>

\* The transport settles token_res.text() with one of answers
IdPBodyFrom(a, answers) ==
    /\ pc[a] \in {"token_text", "verify_text"}
    /\ idpAnswer[a].kind = "headers"
    /\ \E r \in answers : idpAnswer' = [idpAnswer EXCEPT ![a] = r]
    /\ UNCHANGED <<pc, options, reqUrl, provider, net, verified, tokenSet, apiAnswer, userinfo>>

IdPBody(a) == IdPBodyFrom(a, IdPAnswers)

\* VerifyResume reading the request from a variable of module scope, which
\* holds the request of the attempt that posted last
VerifyResume_shared(a) ==
    /\ pc[a] \in {"token_text", "verify_text"}
    /\ idpAnswer[a].kind # "headers"
    /\ LET last == CHOOSE b \in Attempts : net[b] # <<>> /\ \A c \in Attempts : net[c] # <<>> => c <= b
       IN  verified' = [verified EXCEPT ![a] =
                           verifyAssertion_resume(net[last][1].params, idpAnswer[a])]
    /\ pc' = [pc EXCEPT ![a] = AfterVerify(@)]
    /\ UNCHANGED <<options, reqUrl, provider, net, idpAnswer, tokenSet, apiAnswer, userinfo>>

\* verifyAssertion from the settled token_res.text() to its end
VerifyResume(a) ==
    /\ pc[a] \in {"token_text", "verify_text"}
    /\ idpAnswer[a].kind # "headers"
    /\ verified' = [verified EXCEPT ![a] =
                       verifyAssertion_resume(net[a][Len(net[a])].params, idpAnswer[a])]
    /\ pc' = [pc EXCEPT ![a] = AfterVerify(@)]
    /\ UNCHANGED <<options, reqUrl, provider, net, idpAnswer, tokenSet, apiAnswer, userinfo>>

\* provider.token.request() from the settled "await verifyAssertion(req.url)"
\* to its end, uuidv4() giving values of uuids
TokenResumeWith(a, uuids) ==
    /\ pc[a] = "token_verified"
    /\ \E i, t \in uuids :
         tokenSet' = [tokenSet EXCEPT ![a] = token_request_result(verified[a], i, t)]
    /\ pc' = [pc EXCEPT ![a] = IF tokenSet'[a].kind = "return" THEN "authenticated" ELSE "done"]
    /\ UNCHANGED <<options, reqUrl, provider, net, idpAnswer, verified, apiAnswer, userinfo>>

TokenResume(a) == TokenResumeWith(a, UUIDs)

\* provider.userinfo.request(context) up to its first await; context.tokens
\* is the TokenSet of the token step, context.provider the configured provider
UserinfoRequest(a) ==
    /\ pc[a] = "authenticated"
    /\ net' = [net EXCEPT ![a] =
                 Append(@, ProfileGet(provider[a].value.options.clientSecret[1],
                                      tokenSet[a].value.steamId))]
    /\ pc' = [pc EXCEPT ![a] = "userinfo_await"]
    /\ UNCHANGED <<options, reqUrl, provider, idpAnswer, verified, tokenSet, apiAnswer, userinfo>>

\* The transport settles the fetch of the profile GET with one of answers
ApiRespondFrom(a, answers) ==
    /\ pc[a] = "userinfo_await"
    /\ apiAnswer[a] = NoResult
    /\ \E r \in answers : apiAnswer' = [apiAnswer EXCEPT ![a] = r]
    /\ UNCHANGED <<pc, options, reqUrl, provider, net, idpAnswer, verified, tokenSet, userinfo>>

ApiRespond(a) == ApiRespondFrom(a, FetchAnswers)

\* provider.userinfo.request(context) from the settled fetch to
\* "await response.json()"
UserinfoFetched(a) ==
    /\ pc[a] = "userinfo_await"
    /\ apiAnswer[a] # NoResult
    /\ LET r == userinfo_fetched(apiAnswer[a])
       IN  IF r.kind = "await"
           THEN /\ pc' = [pc EXCEPT ![a] = "userinfo_json"]
                /\ UNCHANGED userinfo
           ELSE /\ userinfo' = [userinfo EXCEPT ![a] = r]
                /\ pc' = [pc EXCEPT ![a] = "done"]
    /\ UNCHANGED <<options, reqUrl, provider, net, idpAnswer, verified, tokenSet, apiAnswer>>

\* The transport settles response.json() with one of answers
ApiBodyFrom(a, answers) ==
    /\ pc[a] = "userinfo_json"
    /\ apiAnswer[a].kind = "headers"
    /\ \E r \in answers : apiAnswer' = [apiAnswer EXCEPT ![a] = r]
    /\ UNCHANGED <<pc, options, reqUrl, provider, net, idpAnswer, verified, tokenSet, userinfo>>

ApiBody(a) == ApiBodyFrom(a, ApiAnswers)

\* provider.userinfo.request(context) from the settled response.json() to
\* its end
UserinfoResume(a) ==
    /\ pc[a] = "userinfo_json"
    /\ apiAnswer[a].kind # "headers"
    /\ userinfo' = [userinfo EXCEPT ![a] = userinfo_resume(apiAnswer[a])]
    /\ pc' = [pc EXCEPT ![a] = "done"]
    /\ UNCHANGED <<options, reqUrl, provider, net, idpAnswer, verified, tokenSet, apiAnswer>>

Next ==
    \E a \in Attempts :
        \/ Construct(a)
        \/ TokenRequest(a)
        \/ IdPRespond(a)
        \/ VerifyFetched(a)
        \/ IdPBody(a)
        \/ VerifyResume(a)
        \/ TokenResume(a)
        \/ UserinfoRequest(a)
        \/ ApiRespond(a)
        \/ UserinfoFetched(a)
        \/ ApiBody(a)
        \/ UserinfoResume(a)

Spec == Init /\ [][Next]_vars

(***************************************************************************)
(* verifyAssertion on its own: every argument, every answer of the IdP     *)
(***************************************************************************)
InitVerify ==
    /\ InitCommon
    /\ pc = [a \in Attempts |-> IF a = 1 THEN "verify_start" ELSE "off"]
    /\ options = [a \in Attempts |-> DefaultOptions]
    /\ \E u \in UrlInputs : reqUrl = [a \in Attempts |-> IF a = 1 THEN u ELSE Null]

\* verifyAssertion(url) up to its first await
VerifyCall(a) ==
    /\ pc[a] = "verify_start"
    /\ LET v == verifyAssertion_call(reqUrl[a])
       IN  IF v.kind = "await"
           THEN /\ net' = [net EXCEPT ![a] = Append(@, v.post)]
                /\ pc' = [pc EXCEPT ![a] = "verify_await"]
                /\ UNCHANGED verified
           ELSE /\ verified' = [verified EXCEPT ![a] = v]
                /\ pc' = [pc EXCEPT ![a] = "done"]
                /\ UNCHANGED net
    /\ UNCHANGED <<options, reqUrl, provider, idpAnswer, tokenSet, apiAnswer, userinfo>>

NextVerify ==
    \E a \in Attempts :
        \/ VerifyCall(a)
        \/ IdPRespond(a)
        \/ VerifyFetched(a)
        \/ IdPBody(a)
        \/ VerifyResume(a)

SpecVerify == InitVerify /\ [][NextVerify]_vars

(***************************************************************************)
(* Concurrent attempts: every attempt runs, each on its own request, and   *)
(* their steps interleave freely                                           *)
(***************************************************************************)
OtherClaimedId == "http://steamcommunity.com/openid/id/1"

ConcUrlInputs ==
    { Some([kind |-> "absolute", query |-> CallbackQuery(Some("claimed_id"), Some(c), "bare")]) :
        c \in {GoodClaimedId, OtherClaimedId, "https://evil.example/openid/id/123"} }

ConcFetchAnswers == { [kind |-> "headers"] }

ConcIdPAnswers ==
    { [kind |-> "body", text |-> t] :
        t \in { "ns:http://specs.openid.net/auth/2.0\nis_valid:true\n",
                "ns:http://specs.openid.net/auth/2.0\nis_valid:false\n" } }

ConcApiAnswers ==
    { [kind |-> "body", json |-> Some([response |-> Some([players |-> Some(<<Player("76561197960287930", "gabe")>>)])])] }

ConcUUIDs == {"uuid-a"}

InitConc ==
    /\ InitCommon
    /\ pc = [a \in Attempts |-> "start"]
    /\ options = [a \in Attempts |-> DefaultOptions]
    /\ reqUrl \in [Attempts -> ConcUrlInputs]

NextConc ==
    \E a \in Attempts :
        \/ Construct(a)
        \/ TokenRequest(a)
        \/ IdPRespondFrom(a, ConcFetchAnswers)
        \/ VerifyFetched(a)
        \/ IdPBodyFrom(a, ConcIdPAnswers)
        \/ VerifyResume(a)
        \/ TokenResumeWith(a, ConcUUIDs)
        \/ UserinfoRequest(a)
        \/ ApiRespondFrom(a, ConcFetchAnswers)
        \/ UserinfoFetched(a)
        \/ ApiBodyFrom(a, ConcApiAnswers)
        \/ UserinfoResume(a)

SpecConc == InitConc /\ [][NextConc]_vars

(***************************************************************************)
(* verifyAssertion called on several callback URLs that differ in          *)
(* parameters the signed list does not name                                *)
(***************************************************************************)
PairUrlInputs ==
    { Some([kind |-> "absolute", query |-> q]) :
        q \in { << <<"openid.claimed_id", GoodClaimedId>> >>,
                << <<"openid.", "stray">>, <<"openid.claimed_id", GoodClaimedId>> >>,
                << <<"state", "xyz">>, <<"openid.signed", "claimed_id">>,
                   <<"openid.claimed_id", GoodClaimedId>> >>,
                << <<"openid.signed", "claimed_id">>, <<"openid.claimed_id", GoodClaimedId>>,
                   <<"openid.identity", "https://evil.example/openid/id/123">>, <<"openid.", "stray">> >> } }

InitPair ==
    /\ InitCommon
    /\ pc = [a \in Attempts |-> "verify_start"]
    /\ options = [a \in Attempts |-> DefaultOptions]
    /\ reqUrl \in [Attempts -> PairUrlInputs]

NextPair ==
    \E a \in Attempts :
        \/ VerifyCall(a)
        \/ IdPRespondFrom(a, ConcFetchAnswers)
        \/ VerifyFetched(a)
        \/ IdPBodyFrom(a, ConcIdPAnswers)
        \/ VerifyResume(a)

SpecPair == InitPair /\ [][NextPair]_vars

(***************************************************************************)
(* Vocabulary of the properties, stated without the operators above        *)
(***************************************************************************)
AllDigits(s) == \A k \in 1..Len(s) : CharAt(s, k) \in Digits

\* s is http(s)://steamcommunity.com/openid/id/<digits>, with digits d
IsSteamIdUrl(s, d) ==
    /\ d # ""
    /\ AllDigits(d)
    /\ \/ s = "https://steamcommunity.com/openid/id/" \o d
       \/ s = "http://steamcommunity.com/openid/id/" \o d

LowerChar(c) ==
    CASE c = "A" -> "a" [] c = "D" -> "d" [] c = "E" -> "e" [] c = "I" -> "i"
      [] c = "L" -> "l" [] c = "R" -> "r" [] c = "S" -> "s" [] c = "T" -> "t"
      [] c = "U" -> "u" [] c = "V" -> "v" [] OTHER -> c

RECURSIVE LowerCase(_)
LowerCase(s) == IF s = "" THEN "" ELSE LowerChar(CharAt(s, 1)) \o LowerCase(SubSeq(s, 2, Len(s)))

\* text holds is_valid, blanks, a colon, blanks, true (in any letter case)
HasValidMarker(text) ==
    \E i \in 1..Len(text) :
        /\ i + 7 <= Len(text)
        /\ LowerCase(SubSeq(text, i, i + 7)) = "is_valid"
        /\ \E c \in (i + 8)..Len(text) :
              /\ CharAt(text, c) = ":"
              /\ \A k \in (i + 8)..(c - 1) : CharAt(text, k) \in Whitespace
              /\ \E t \in (c + 1)..Len(text) :
                    /\ t + 3 <= Len(text)
                    /\ LowerCase(SubSeq(text, t, t + 3)) = "true"
                    /\ \A k \in (c + 1)..(t - 1) : CharAt(text, k) \in Whitespace

\* The value of the first query parameter called name, as an option
Param(query, name) ==
    IF \E i \in 1..Len(query) : query[i][1] = name
    THEN LET i == CHOOSE i \in 1..Len(query) :
                     query[i][1] = name /\ \A j \in 1..Len(query) : query[j][1] = name => i <= j
         IN  Some(query[i][2])
    ELSE Null

ParamOrEmpty(query, name) == IF Param(query, name) = Null THEN "" ELSE Param(query, name)[1]

\* The names a comma-separated list holds: its maximal comma-free pieces
ListNames(list) ==
    LET starts == {i \in 1..(Len(list) + 1) : i = 1 \/ CharAt(list, i - 1) = ","}
        ends   == {j \in 0..Len(list) : j = Len(list) \/ CharAt(list, j + 1) = ","}
        pieces == {p \in starts \X ends :
                     /\ p[1] <= p[2] + 1
                     /\ \A k \in p[1]..p[2] : CharAt(list, k) # ","}
    IN  {SubSeq(list, p[1], p[2]) : p \in pieces}

\* The attempt's callback URL parsed, and the verification POST it sent
HasCallback(a) == reqUrl[a] # Null /\ reqUrl[a][1].kind = "absolute"

Callback(a) == reqUrl[a][1].query

Posts(a) == {i \in 1..Len(net[a]) : net[a][i].method = "POST"}

Posted(a) == Posts(a) # {}

Request(a) == net[a][CHOOSE i \in Posts(a) : TRUE].params

\* verifyAssertion returned the identifier d / returned "no identifier"
ReturnedId(a, d) == verified[a] = [kind |-> "return", value |-> <<d>>]

ReturnedNoId(a) == verified[a] = [kind |-> "return", value |-> <<>>]

AnsweredBody(a) == idpAnswer[a] # NoResult /\ idpAnswer[a].kind = "body"

\* the request has exactly one entry called name, and its value is v
Carries(params, name, v) ==
    /\ \E i \in 1..Len(params) : params[i] = <<name, v>>
    /\ Cardinality({i \in 1..Len(params) : params[i][1] = name}) = 1

(***************************************************************************)
(* C1. verifyAssertion returns an identifier only if the IdP's body holds  *)
(* the is_valid:true marker and the callback's claimed identifier is a     *)
(* Steam identifier URL; a claimed identifier on another host gives no     *)
(* identifier even when the IdP answers is_valid:true.                     *)
(***************************************************************************)
EvilClaimedId == "https://evil.example/openid/id/123"

C1_IdentifierOnlyIfValidAndShaped ==
    \A a \in Attempts :
        /\ (verified[a].kind = "return" /\ verified[a].value # Null) =>
              /\ AnsweredBody(a)
              /\ HasValidMarker(idpAnswer[a].text)
              /\ HasCallback(a)
              /\ Param(Callback(a), "openid.claimed_id") # Null
              /\ IsSteamIdUrl(Param(Callback(a), "openid.claimed_id")[1], verified[a].value[1])
        /\ ( /\ pc[a] = "done"
             /\ HasCallback(a)
             /\ Param(Callback(a), "openid.claimed_id") = Some(EvilClaimedId)
             /\ AnsweredBody(a) )
           => ReturnedNoId(a)

C1_Witness ==
    /\ pc[1] = "done"
    /\ HasCallback(1)
    /\ Param(Callback(1), "openid.claimed_id") = Some(EvilClaimedId)
    /\ "claimed_id" \in ListNames(ParamOrEmpty(Callback(1), "openid.signed"))
    /\ AnsweredBody(1)
    /\ HasValidMarker(idpAnswer[1].text)
    /\ ReturnedNoId(1)

(***************************************************************************)
(* C2. Every name n of the callback's openid.signed list is in the         *)
(* verification request as openid.n, with the callback's value for         *)
(* openid.n, or the empty string when the callback has no such parameter.  *)
(***************************************************************************)
C2_SignedFieldsEchoed ==
    \A a \in Attempts :
        (Posted(a) /\ Param(Callback(a), "openid.signed") # Null) =>
            \A n \in ListNames(Param(Callback(a), "openid.signed")[1]) :
                Carries(Request(a), "openid." \o n, ParamOrEmpty(Callback(a), "openid." \o n))

C2_Witness ==
    /\ Posted(1)
    /\ Param(Callback(1), "openid.signed") = Some("claimed_id,missing")
    /\ Param(Callback(1), "openid.missing") = Null
    /\ Carries(Request(1), "openid.missing", "")
    /\ Param(Callback(1), "openid.claimed_id") = Some(GoodClaimedId)
    /\ Carries(Request(1), "openid.claimed_id", GoodClaimedId)

(***************************************************************************)
(* C3. Whatever the signed list names, the verification request has        *)
(* openid.mode = check_authentication and openid.ns = the OpenID 2.0       *)
(* namespace, and openid.sig, openid.assoc_handle and openid.signed equal  *)
(* to the callback's values.                                               *)
(***************************************************************************)
C3_FixedFieldsKept ==
    \A a \in Attempts :
        Posted(a) =>
            /\ Carries(Request(a), "openid.mode", "check_authentication")
            /\ Carries(Request(a), "openid.ns", "http://specs.openid.net/auth/2.0")
            /\ Carries(Request(a), "openid.sig", ParamOrEmpty(Callback(a), "openid.sig"))
            /\ Carries(Request(a), "openid.assoc_handle", ParamOrEmpty(Callback(a), "openid.assoc_handle"))
            /\ Carries(Request(a), "openid.signed", ParamOrEmpty(Callback(a), "openid.signed"))

(***************************************************************************)
(* C4. token.request, once settled, has returned a TokenSet exactly when   *)
(* verifyAssertion returned an identifier d, and then steamId = d; when    *)
(* verifyAssertion returned no identifier it has thrown Unauthenticated.   *)
(* No TokenSet has an empty steamId.                                       *)
(***************************************************************************)
\* token.request has settled
TokenSettled(a) == tokenSet[a] # NoResult

C4_TokenSetIffIdentifier ==
    \A a \in Attempts :
        /\ tokenSet[a].kind = "return" =>
              /\ ReturnedId(a, tokenSet[a].value.steamId)
              /\ tokenSet[a].value.steamId # ""
        /\ TokenSettled(a) =>
              /\ (verified[a].kind = "return" /\ verified[a].value # Null) => tokenSet[a].kind = "return"
              /\ ReturnedNoId(a) =>
                    tokenSet[a] = [kind |-> "throw", error |-> [name |-> "Error", message |-> "Unauthenticated"]]

C4_Witness ==
    /\ ReturnedNoId(1)
    /\ tokenSet[1].kind = "throw"
    /\ tokenSet[1].error.message = "Unauthenticated"
    /\ Posted(1)

(***************************************************************************)
(* C5. Round trip: when the IdP's body contains is_valid:true and the      *)
(* signed list names claimed_id with openid.claimed_id =                   *)
(* http(s)://steamcommunity.com/openid/id/<digits>, verifyAssertion        *)
(* returns exactly <digits>.                                               *)
(***************************************************************************)
Contains(text, piece) ==
    \E i \in 1..Len(text) :
        i + Len(piece) - 1 <= Len(text) /\ SubSeq(text, i, i + Len(piece) - 1) = piece

C5_RoundTrip ==
    \A a \in Attempts :
        ( /\ pc[a] = "done"
          /\ AnsweredBody(a)
          /\ Contains(idpAnswer[a].text, "is_valid:true")
          /\ "claimed_id" \in ListNames(ParamOrEmpty(Callback(a), "openid.signed"))
          /\ Param(Callback(a), "openid.claimed_id") # Null )
        => LET c == Param(Callback(a), "openid.claimed_id")[1]
           IN  \A n \in 1..Len(c) :
                  IsSteamIdUrl(c, SubSeq(c, Len(c) - n + 1, Len(c)))
                      => ReturnedId(a, SubSeq(c, Len(c) - n + 1, Len(c)))

C5_Witness ==
    /\ pc[1] = "done"
    /\ AnsweredBody(1)
    /\ Contains(idpAnswer[1].text, "is_valid:true")
    /\ Param(Callback(1), "openid.signed") = Some("claimed_id")
    /\ Param(Callback(1), "openid.claimed_id") = Some("https://steamcommunity.com/openid/id/76561197960287930")
    /\ ReturnedId(1, "76561197960287930")

(***************************************************************************)
(* C6. When the IdP's body does not match is_valid\s*:\s*true (ignoring    *)
(* case), verifyAssertion returns "no identifier" and throws nothing.      *)
(***************************************************************************)
C6_InvalidIsBenign ==
    \A a \in Attempts :
        (pc[a] = "done" /\ AnsweredBody(a) /\ ~HasValidMarker(idpAnswer[a].text))
            => ReturnedNoId(a)

C6_Witness ==
    /\ pc[1] = "done"
    /\ AnsweredBody(1)
    /\ Contains(idpAnswer[1].text, "is_valid:false")
    /\ Param(Callback(1), "openid.signed") = Some("claimed_id")
    /\ Param(Callback(1), "openid.claimed_id") = Some(GoodClaimedId)
    /\ ReturnedNoId(1)

(***************************************************************************)
(* C7. For a callback URL without openid.signed the verification request   *)
(* echoes no field: its keys are exactly openid.assoc_handle,              *)
(* openid.signed, openid.sig, openid.ns and openid.mode; and the token     *)
(* step ends in Unauthenticated when the IdP reports invalid.              *)
(***************************************************************************)
C7_NoSignedNoEcho ==
    \A a \in Attempts :
        (HasCallback(a) /\ Param(Callback(a), "openid.signed") = Null) =>
            /\ Posted(a) =>
                  {Request(a)[i][1] : i \in 1..Len(Request(a))} =
                      {"openid.assoc_handle", "openid.signed", "openid.sig", "openid.ns", "openid.mode"}
            /\ (tokenSet[a] # NoResult /\ AnsweredBody(a) /\ ~HasValidMarker(idpAnswer[a].text)) =>
                  tokenSet[a] = [kind |-> "throw", error |-> [name |-> "Error", message |-> "Unauthenticated"]]

(***************************************************************************)
(* C8. With an absent or empty callback URL the token step fails with the  *)
(* missing-callback error ("No URL found in request object"): an error     *)
(* that is neither the "no identifier" result nor Unauthenticated; and no  *)
(* verification POST is sent.                                              *)
(***************************************************************************)
C8_MissingCallback ==
    \A a \in Attempts :
        FalsyUrl(reqUrl[a]) =>
            /\ net[a] = <<>>
            /\ ~ReturnedNoId(a)
            /\ tokenSet[a].kind # "return"
            /\ (pc[a] = "done" /\ provider[a].kind = "return") =>
                  /\ tokenSet[a] = [kind |-> "throw",
                                    error |-> [name |-> "Error", message |-> "No URL found in request object"]]
                  /\ tokenSet[a].error.message # "Unauthenticated"

C8_Witness ==
    /\ reqUrl[1] # Null
    /\ reqUrl[1][1].kind = "empty"
    /\ pc[1] = "done"
    /\ provider[1].kind = "return"
    /\ tokenSet[1].kind = "throw"
    /\ tokenSet[1].error.message = "No URL found in request object"
    /\ net[1] = <<>>

(***************************************************************************)
(* C9. As claimed: Steam() called with an absent or empty clientSecret     *)
(* throws the missing-credential error, returns no provider, and no        *)
(* transport call is made.                                                 *)
(***************************************************************************)
NoSecret(a) == options[a].clientSecret = Null \/ options[a].clientSecret = Some("")

Constructed(a) == pc[a] \notin {"off", "start", "verify_start", "verify_await", "verify_text"} /\ provider[a] # NoResult

C9_Original_MissingCredential ==
    \A a \in Attempts :
        (NoSecret(a) /\ Constructed(a)) =>
            /\ provider[a] = [kind |-> "throw",
                              error |-> [name |-> "Error", message |-> "Steam API key is missing"]]
            /\ net[a] = <<>>

(***************************************************************************)
(* C9, amended. Steam() called with an absent or empty clientSecret throws *)
(* and returns no provider, and no transport call is ever made; the error  *)
(* is the missing-credential error whenever new URL() parses               *)
(* options.callbackUrl, and the "Invalid URL" TypeError of new URL()       *)
(* otherwise.                                                              *)
(***************************************************************************)
C9_MissingCredential ==
    \A a \in Attempts :
        NoSecret(a) =>
            /\ net[a] = <<>>
            /\ tokenSet[a] = NoResult /\ userinfo[a] = NoResult
            /\ Constructed(a) =>
                  /\ pc[a] = "done"
                  /\ provider[a].kind = "throw"
                  /\ provider[a].error.message =
                        IF options[a].callbackUrl.url # Null
                        THEN "Steam API key is missing"
                        ELSE "Invalid URL"

C9_Witness ==
    /\ options[1].clientSecret = Some("")
    /\ options[1].callbackUrl.text = "http://localhost:3000/api/auth/callback"
    /\ pc[1] = "done"
    /\ provider[1].kind = "throw"
    /\ provider[1].error.message = "Steam API key is missing"
    /\ net[1] = <<>>

(***************************************************************************)
(* C10. userinfo.request fails when the profile API answers with an empty  *)
(* players collection; it never returns an absent profile.                 *)
(***************************************************************************)
EmptyPlayers(a) ==
    /\ apiAnswer[a] # NoResult
    /\ apiAnswer[a].kind = "body"
    /\ apiAnswer[a].json = Some([response |-> Some([players |-> Some(<<>>)])])

C10_EmptyPlayersFails ==
    \A a \in Attempts :
        /\ (EmptyPlayers(a) /\ userinfo[a] # NoResult) => userinfo[a].kind = "throw"
        /\ userinfo[a].kind = "return" => userinfo[a].value # Null

(***************************************************************************)
(* C11. In one attempt a profile GET is issued only after the token step   *)
(* has succeeded: it comes after a verification POST whose answer held the *)
(* is_valid:true marker, its steamids is the identifier the token step     *)
(* verified in that attempt and its key is the configured API key; when    *)
(* the token step fails no profile GET is issued.                          *)
(***************************************************************************)
Gets(a) == {i \in 1..Len(net[a]) : net[a][i].method = "GET"}

C11_ProfileAfterToken ==
    \A a \in Attempts :
        /\ \A g \in Gets(a) :
              /\ \E p \in Posts(a) : p < g
              /\ AnsweredBody(a)
              /\ HasValidMarker(idpAnswer[a].text)
              /\ tokenSet[a].kind = "return"
              /\ ReturnedId(a, tokenSet[a].value.steamId)
              /\ net[a][g].params =
                    << <<"key", options[a].clientSecret[1]>>,
                       <<"steamids", tokenSet[a].value.steamId>> >>
              /\ IsSteamIdUrl(Param(Callback(a), "openid.claimed_id")[1], Param(net[a][g].params, "steamids")[1])
        /\ tokenSet[a].kind # "return" => Gets(a) = {}
        /\ Cardinality(Gets(a)) <= 1

C11_Witness ==
    /\ Gets(1) # {}
    /\ Posts(1) # {}
    /\ Param(net[1][2].params, "steamids") = Some("76561197960287930")
    /\ Param(net[1][2].params, "key") = Some("STEAMKEY")
    /\ tokenSet[1].kind = "return"

(***************************************************************************)
(* C12. As claimed: one call of verifyAssertion with a non-empty callback  *)
(* URL issues exactly one verification POST and never retries it; a        *)
(* network failure of that POST reaches the caller as an error.            *)
(***************************************************************************)
VerifyStarted(a) == pc[a] \in {"verify_await", "verify_text", "done"}

TransportFailed(a) == idpAnswer[a] # NoResult /\ idpAnswer[a].kind \in {"fetch_fail", "text_fail"}

C12_Original_ExactlyOnePost ==
    \A a \in Attempts :
        (~FalsyUrl(reqUrl[a]) /\ VerifyStarted(a)) =>
            /\ Cardinality(Posts(a)) = 1
            /\ (TransportFailed(a) /\ pc[a] = "done") => verified[a].kind = "throw"

(***************************************************************************)
(* C12, amended. One call of verifyAssertion with a callback URL that      *)
(* new URL() parses issues exactly one verification POST (also when        *)
(* openid.signed is absent) and never retries it, and a network failure of *)
(* that POST reaches the caller as an error, never as "no identifier" or   *)
(* an identifier; a non-empty URL that does not parse makes new URL()      *)
(* throw before any POST is issued.                                        *)
(***************************************************************************)
C12_ExactlyOnePost ==
    \A a \in Attempts :
        (~FalsyUrl(reqUrl[a]) /\ VerifyStarted(a)) =>
            /\ reqUrl[a][1].kind = "absolute" =>
                  /\ Cardinality(Posts(a)) = 1
                  /\ Len(net[a]) = 1
                  /\ (TransportFailed(a) /\ pc[a] = "done") =>
                        /\ verified[a].kind = "throw"
                        /\ verified[a].error.name = "TypeError"
            /\ reqUrl[a][1].kind # "absolute" =>
                  /\ net[a] = <<>>
                  /\ verified[a] = [kind |-> "throw", error |-> [name |-> "TypeError", message |-> "Invalid URL"]]

C12_Witness ==
    /\ pc[1] = "done"
    /\ HasCallback(1)
    /\ Param(Callback(1), "openid.signed") = Null
    /\ Cardinality(Posts(1)) = 1
    /\ idpAnswer[1].kind = "fetch_fail"
    /\ verified[1].kind = "throw"

(***************************************************************************)
(* C13. Attempts that run concurrently, their steps interleaved in any     *)
(* order, share no mutable state: every step changes the state of one      *)
(* attempt only, and the verification request, the result and the          *)
(* TokenSet's steamId of an attempt are what its own callback URL and the  *)
(* IdP's answer to its own request give when it runs alone.                *)
(***************************************************************************)
AttemptState(a) ==
    <<pc[a], options[a], reqUrl[a], provider[a], net[a], idpAnswer[a], verified[a],
      tokenSet[a], apiAnswer[a], userinfo[a]>>

\* The attempt's own callback and the answer to its own request stand for
\* an identifier / for the identifier d
OwnAnswerValid(a) ==
    /\ AnsweredBody(a)
    /\ "claimed_id" \in ListNames(ParamOrEmpty(Callback(a), "openid.signed"))
    /\ Param(Callback(a), "openid.claimed_id") # Null
    /\ HasValidMarker(idpAnswer[a].text)

OwnIdentifier(a, d) ==
    /\ OwnAnswerValid(a)
    /\ IsSteamIdUrl(Param(Callback(a), "openid.claimed_id")[1], d)

OwnClaimedIsSteam(a) ==
    LET c == Param(Callback(a), "openid.claimed_id")[1]
    IN  \E k \in 1..Len(c) : IsSteamIdUrl(c, SubSeq(c, k, Len(c)))

OwnResults(a) ==
    /\ Posted(a) =>
          /\ \A n \in ListNames(ParamOrEmpty(Callback(a), "openid.signed")) :
                Carries(Request(a), "openid." \o n, ParamOrEmpty(Callback(a), "openid." \o n))
          /\ Carries(Request(a), "openid.signed", ParamOrEmpty(Callback(a), "openid.signed"))
          /\ Carries(Request(a), "openid.sig", ParamOrEmpty(Callback(a), "openid.sig"))
          /\ Carries(Request(a), "openid.assoc_handle", ParamOrEmpty(Callback(a), "openid.assoc_handle"))
    /\ verified[a].kind = "return" =>
          /\ \A d \in {verified[a].value[i] : i \in 1..Len(verified[a].value)} : OwnIdentifier(a, d)
          /\ ReturnedNoId(a) => ~(OwnAnswerValid(a) /\ OwnClaimedIsSteam(a))
    /\ tokenSet[a].kind = "return" => OwnIdentifier(a, tokenSet[a].value.steamId)
    /\ \A g \in Gets(a) : OwnIdentifier(a, Param(net[a][g].params, "steamids")[1])

C13_NoSharedState ==
    /\ [](\A a \in Attempts : OwnResults(a))
    /\ [][\E a \in Attempts : \A b \in Attempts \ {a} : AttemptState(b)' = AttemptState(b)]_vars

C13_Witness ==
    /\ tokenSet[1].kind = "return"
    /\ tokenSet[1].value.steamId = "76561197960287930"
    /\ pc[2] = "userinfo_await"
    /\ pc[1] = "authenticated"
    /\ tokenSet[2].kind = "return"
    /\ tokenSet[2].value.steamId = "1"
    /\ Param(net[2][2].params, "steamids") = Some("1")

(***************************************************************************)
(* C14. As claimed: the authorization request has mode checkid_setup, the  *)
(* OpenID 2.0 namespace, identity and claimed_id equal to the              *)
(* identifier-select URL, realm equal to the origin of the callback base   *)
(* URL and return_to equal to the callback base URL followed by /steam;    *)
(* building it makes no network call.                                      *)
(***************************************************************************)
\* The callback base URL as configured, and the origin and the href of the
\* URL object new URL() makes of it
BaseUrl(a) == options[a].callbackUrl.text

BaseOrigin(a) == options[a].callbackUrl.url[1].origin

BaseHref(a) == options[a].callbackUrl.url[1].href

Authorization(a) == provider[a].value.authorization

AuthorizationFixedPart(a) ==
    /\ Len(Authorization(a).params) = 6
    /\ Carries(Authorization(a).params, "openid.mode", "checkid_setup")
    /\ Carries(Authorization(a).params, "openid.ns", "http://specs.openid.net/auth/2.0")
    /\ Carries(Authorization(a).params, "openid.identity", "http://specs.openid.net/auth/2.0/identifier_select")
    /\ Carries(Authorization(a).params, "openid.claimed_id", "http://specs.openid.net/auth/2.0/identifier_select")
    /\ Carries(Authorization(a).params, "openid.realm", BaseOrigin(a))
    /\ pc[a] = "ready" => net[a] = <<>>

C14_Original_AuthorizationRequest ==
    \A a \in Attempts :
        provider[a].kind = "return" =>
            /\ AuthorizationFixedPart(a)
            /\ Carries(Authorization(a).params, "openid.return_to", BaseUrl(a) \o "/steam")

(***************************************************************************)
(* C14, amended. As claimed, except that return_to is the href of the      *)
(* parsed callback base URL followed by /steam, and the href is the        *)
(* normalised URL: the configured string only when that is already         *)
(* normalised and has a path (https://app.example gives                    *)
(* https://app.example//steam, http://LocalHost:80/api/auth/callback gives *)
(* http://localhost/api/auth/callback/steam).                              *)
(***************************************************************************)
C14_AuthorizationRequest ==
    \A a \in Attempts :
        provider[a].kind = "return" =>
            /\ AuthorizationFixedPart(a)
            /\ Carries(Authorization(a).params, "openid.return_to",
                       BaseHref(a) \o "/steam")

C14_Witness ==
    /\ pc[1] = "ready"
    /\ provider[1].kind = "return"
    /\ BaseUrl(1) = "http://localhost:3000/api/auth/callback"
    /\ Carries(Authorization(1).params, "openid.realm", "http://localhost:3000")
    /\ Carries(Authorization(1).params, "openid.return_to", "http://localhost:3000/api/auth/callback/steam")
    /\ net[1] = <<>>

(***************************************************************************)
(* C15. The identifier comes from the openid.claimed_id of the outgoing    *)
(* verification request: when the callback's signed list does not name     *)
(* claimed_id, verifyAssertion returns "no identifier" whatever the        *)
(* callback's own openid.claimed_id and the IdP's answer are; and every    *)
(* returned identifier is the digits of an openid.claimed_id that the      *)
(* request carried because the signed list names it.                       *)
(***************************************************************************)
SignedNames(a) == ListNames(ParamOrEmpty(Callback(a), "openid.signed"))

C15_IdentifierFromRequest ==
    \A a \in Attempts :
        /\ (pc[a] = "done" /\ HasCallback(a) /\ AnsweredBody(a) /\ "claimed_id" \notin SignedNames(a))
              => ReturnedNoId(a)
        /\ (verified[a].kind = "return" /\ verified[a].value # Null) =>
              /\ Posted(a)
              /\ "claimed_id" \in SignedNames(a)
              /\ Param(Request(a), "openid.claimed_id") # Null
              /\ Carries(Request(a), "openid.claimed_id", Param(Request(a), "openid.claimed_id")[1])
              /\ IsSteamIdUrl(Param(Request(a), "openid.claimed_id")[1], verified[a].value[1])

C15_Witness ==
    /\ pc[1] = "done"
    /\ HasCallback(1)
    /\ Param(Callback(1), "openid.signed") = Some("identity,return_to")
    /\ Param(Callback(1), "openid.claimed_id") = Some(GoodClaimedId)
    /\ AnsweredBody(1)
    /\ HasValidMarker(idpAnswer[1].text)
    /\ Param(Request(1), "openid.claimed_id") = Null
    /\ ReturnedNoId(1)

(***************************************************************************)
(* C16. The identifier pattern is applied to the whole claimed_id: a       *)
(* claimed_id that is not itself a Steam identifier URL but contains one   *)
(* (characters before the scheme or after the digits) gives "no            *)
(* identifier" even when the IdP answers is_valid:true; and a returned     *)
(* identifier is a non-empty string of decimal digits that is the whole    *)
(* of the claimed_id after its last "/".                                   *)
(***************************************************************************)
\* some substring of c is http(s)://steamcommunity.com/openid/id/<digits>
ContainsSteamIdUrl(c) ==
    \E p \in {"http://steamcommunity.com/openid/id/", "https://steamcommunity.com/openid/id/"} :
        \E i \in 1..Len(c) :
            /\ i + Len(p) <= Len(c)
            /\ SubSeq(c, i, i + Len(p) - 1) = p
            /\ CharAt(c, i + Len(p)) \in Digits

\* c is a Steam identifier URL, whatever its digits
IsWholeSteamIdUrl(c) == \E n \in 1..Len(c) : IsSteamIdUrl(c, SubSeq(c, Len(c) - n + 1, Len(c)))

\* d is what follows the last "/" of c
IsPathTail(c, d) ==
    /\ Len(d) < Len(c)
    /\ SubSeq(c, Len(c) - Len(d), Len(c)) = "/" \o d
    /\ ~Contains(d, "/")

C16_PatternAnchored ==
    \A a \in Attempts :
        /\ ( /\ pc[a] = "done"
             /\ HasCallback(a)
             /\ AnsweredBody(a)
             /\ Param(Callback(a), "openid.claimed_id") # Null
             /\ ContainsSteamIdUrl(Param(Callback(a), "openid.claimed_id")[1])
             /\ ~IsWholeSteamIdUrl(Param(Callback(a), "openid.claimed_id")[1]) )
           => ReturnedNoId(a)
        /\ (verified[a].kind = "return" /\ verified[a].value # Null) =>
              /\ verified[a].value[1] # ""
              /\ AllDigits(verified[a].value[1])
              /\ IsPathTail(Param(Callback(a), "openid.claimed_id")[1], verified[a].value[1])

C16_Witness ==
    /\ pc[1] = "done"
    /\ HasCallback(1)
    /\ "claimed_id" \in SignedNames(1)
    /\ Param(Callback(1), "openid.claimed_id") \in
          { Some("https://evil.example/?u=https://steamcommunity.com/openid/id/123"),
            Some("https://steamcommunity.com/openid/id/123/x") }
    /\ Carries(Request(1), "openid.claimed_id", Param(Callback(1), "openid.claimed_id")[1])
    /\ AnsweredBody(1)
    /\ HasValidMarker(idpAnswer[1].text)
    /\ ReturnedNoId(1)

(***************************************************************************)
(* C17. Non-interference of unsigned parameters: two callback URLs that    *)
(* agree on openid.signed, openid.sig, openid.assoc_handle and on every    *)
(* openid.n with n named in the signed list (no name when openid.signed    *)
(* is absent or empty) make verifyAssertion send identical verification    *)
(* requests and, given the same answer of the IdP, return the same result. *)
(***************************************************************************)
\* The names of the signed list: none when openid.signed is absent or empty
NamedFields(query) ==
    IF ParamOrEmpty(query, "openid.signed") = "" THEN {}
    ELSE ListNames(ParamOrEmpty(query, "openid.signed"))

AgreeOnSigned(q1, q2) ==
    /\ \A k \in {"openid.signed", "openid.sig", "openid.assoc_handle"} : Param(q1, k) = Param(q2, k)
    /\ \A n \in NamedFields(q1) : Param(q1, "openid." \o n) = Param(q2, "openid." \o n)

C17_UnsignedNonInterference ==
    \A a, b \in Attempts :
        (HasCallback(a) /\ HasCallback(b) /\ AgreeOnSigned(Callback(a), Callback(b))) =>
            /\ (Posted(a) /\ Posted(b)) => Request(a) = Request(b)
            /\ (pc[a] = "done" /\ pc[b] = "done" /\ idpAnswer[a] = idpAnswer[b])
                  => verified[a] = verified[b]

====
